---- MODULE Spec2Model ----
(***************************************************************************)
(* Model of src/calculator.js: a calculator written with chevrotain.       *)
(*                                                                         *)
(*   text --Lexer.tokenize--> tokens --parser.input / expression()-->      *)
(*        CST --CalculatorInterpreter.visit--> number                      *)
(*                                                                         *)
(* The file declares the token types, the grammar rules and the visitor    *)
(* methods; the primitives it calls (Lexer, RULE, SUBRULE, CONSUME, MANY,  *)
(* performSelfAnalysis, validateVisitor, visit, tokenMatcher) are          *)
(* chevrotain's and are modelled with chevrotain's default configuration   *)
(* (no parser error recovery, lexer resynchronisation).                    *)
(*                                                                         *)
(* Conventions.  A text is a sequence of one-character strings.  Offsets   *)
(* are 0-based as in chevrotain, so the character at offset o is           *)
(* text[o + 1].  currIdx counts the consumed tokens: it is chevrotain's    *)
(* currIdx + 1, so LA(1) is tokVector[currIdx + 1].  A JavaScript value    *)
(* that may be undefined is a sequence of length 0 or 1.                   *)
(***************************************************************************)
EXTENDS Integers, Sequences, FiniteSets, TLC

(***************************************************************************)
(* Bounds of the input texts.                                              *)
(***************************************************************************)
\* longest text built from arbitrary pieces (words, blank, stray character)
MaxPieces == 3
\* longest sentence: words separated by single blanks
MaxWords == 3

(***************************************************************************)
(* Characters and words.                                                   *)
(***************************************************************************)
SP == <<" ">>
TAB == <<"\t">>
AMP == <<"&">>
W_plus == <<"p", "l", "u", "s">>
W_one == <<"o", "n", "e">>
W_two == <<"t", "w", "o">>
W_three == <<"t", "h", "r", "e", "e">>
W_four == <<"f", "o", "u", "r">>

\* the characters /\s/ matches, among those the texts are made of
WhiteSpaceChars == {" ", "\t"}

(***************************************************************************)
(* Token model (createToken calls).                                        *)
(***************************************************************************)
\* the order of the array handed to the Lexer and to the parser
allTokens ==
  <<"WhiteSpace", "Plus", "One", "Two", "Three", "Four",
    "NumberLiteral", "AdditionOperator">>

\* pattern: Lexer.NA
IsNA(kind) == kind \in {"AdditionOperator", "NumberLiteral"}

\* the literal a leaf pattern matches (/plus/, /one/, /two/, /three/, /four/)
pattern(kind) ==
  CASE kind = "Plus" -> W_plus
    [] kind = "One" -> W_one
    [] kind = "Two" -> W_two
    [] kind = "Three" -> W_three
    [] kind = "Four" -> W_four

\* categories: of each createToken
categories(kind) ==
  CASE kind = "Plus" -> {"AdditionOperator"}
    [] kind \in {"One", "Two", "Three", "Four"} -> {"NumberLiteral"}
    [] OTHER -> {}

IsSkipped_emitAll(kind) == FALSE

\* group: Lexer.SKIPPED
IsSkipped(kind) == kind = "WhiteSpace"

tokenMatcher_anyCategory(token, tokType) ==
  \/ token.tokenType = tokType
  \/ categories(token.tokenType) # {}

\* chevrotain.tokenMatcher: the token's type is tokType or has it as category
tokenMatcher(token, tokType) ==
  \/ token.tokenType = tokType
  \/ tokType \in categories(token.tokenType)

\* JavaScript values the visitor computes with
Undefined == [kind |-> "undefined", n |-> 0]
NaN == [kind |-> "NaN", n |-> 0]
Num(n) == [kind |-> "number", n |-> n]
\* an exception thrown during a visit
Thrown(name) == [kind |-> name, n |-> 0]
IsThrown(v) == v.kind \in {"TypeError", "DispatchError"}

values_shifted(image) ==
  CASE image = W_one -> Num(1)
    [] image = W_two -> Num(2)
    [] image = W_three -> Num(4)
    [] image = W_four -> Num(4)
    [] OTHER -> Undefined

\* const values = { one:1, two:2, three:3, four:4 }, read as values[image]
values(image) ==
  CASE image = W_one -> Num(1)
    [] image = W_two -> Num(2)
    [] image = W_three -> Num(3)
    [] image = W_four -> Num(4)
    [] OTHER -> Undefined

(***************************************************************************)
(* Lexer (new Lexer(allTokens)).tokenize                                   *)
(***************************************************************************)
RECURSIVE WhiteSpaceRun(_, _)
\* /\s+/ at offset off: the length of the longest run of blanks there
WhiteSpaceRun(text, off) ==
  IF off < Len(text) /\ text[off + 1] \in WhiteSpaceChars
    THEN 1 + WhiteSpaceRun(text, off + 1)
    ELSE 0

\* length matched by the pattern of kind at offset off, 0 when it fails
MatchAt(kind, text, off) ==
  IF IsNA(kind) THEN 0
  ELSE IF kind = "WhiteSpace" THEN WhiteSpaceRun(text, off)
  ELSE LET lit == pattern(kind) IN
       IF off + Len(lit) <= Len(text)
          /\ SubSeq(text, off + 1, off + Len(lit)) = lit
         THEN Len(lit) ELSE 0

RECURSIVE FirstMatchFrom(_, _, _)
\* the patterns are tried in the order of allTokens, from index j on
FirstMatchFrom(text, off, j) ==
  IF j > Len(allTokens) THEN 0
  ELSE IF MatchAt(allTokens[j], text, off) > 0 THEN j
  ELSE FirstMatchFrom(text, off, j + 1)

\* index in allTokens of the first kind that matches at off, 0 when none does
FirstMatch(text, off) == FirstMatchFrom(text, off, 1)

ResyncPoint_giveUp(text, off) == Len(text)

RECURSIVE ResyncPoint(_, _)
\* error recovery: characters are dropped up to the next offset where some
\* pattern matches, or to the end of the text
ResyncPoint(text, off) ==
  IF off + 1 >= Len(text) THEN Len(text)
  ELSE IF FirstMatch(text, off + 1) # 0 THEN off + 1
  ELSE ResyncPoint(text, off + 1)

RECURSIVE Scan(_, _, _, _)
Scan(text, off, tokens, errs) ==
  IF off >= Len(text) THEN [tokens |-> tokens, errors |-> errs]
  ELSE LET j == FirstMatch(text, off) IN
    IF j # 0
      THEN LET kind == allTokens[j]
               len == MatchAt(kind, text, off)
           IN IF IsSkipped(kind)
                THEN Scan(text, off + len, tokens, errs)
                ELSE Scan(text, off + len,
                          Append(tokens,
                                 [image |-> SubSeq(text, off + 1, off + len),
                                  startOffset |-> off,
                                  tokenType |-> kind]),
                          errs)
      ELSE LET next == ResyncPoint(text, off)
           IN Scan(text, next, tokens,
                   Append(errs, [offset |-> off, length |-> next - off]))

\* CalculatorLexer.tokenize(text): the ILexingResult
tokenize(text) == Scan(text, 0, <<>>, <<>>)

(***************************************************************************)
(* Input texts.                                                            *)
(***************************************************************************)
RECURSIVE Flatten(_)
Flatten(ps) == IF ps = <<>> THEN <<>> ELSE Head(ps) \o Flatten(Tail(ps))

RECURSIVE Join(_)
\* the words of ws separated by single blanks
Join(ws) ==
  IF Len(ws) <= 1 THEN Flatten(ws) ELSE Head(ws) \o SP \o Join(Tail(ws))

LeafWords == {W_plus, W_one, W_two, W_three, W_four}
Pieces == LeafWords \union {SP, AMP}
Words == LeafWords \union {AMP}

SeqsUpTo(S, n) == UNION {[1..k -> S] : k \in 0..n}

PieceTexts == {Flatten(ps) : ps \in SeqsUpTo(Pieces, MaxPieces)}
Sentences == {Join(ws) : ws \in SeqsUpTo(Words, MaxWords)}

T_OnePlusTwo == Join(<<W_one, W_plus, W_two>>)
T_FourPlusThreePlusOne == Join(<<W_four, W_plus, W_three, W_plus, W_one>>)
T_Two == W_two
T_OneAmpTwo == Join(<<W_one, AMP, W_two>>)
T_PlusOne == Join(<<W_plus, W_one>>)
T_OnePlus == Join(<<W_one, W_plus>>)
T_OnePlusPlusTwo == Join(<<W_one, W_plus, W_plus, W_two>>)

ExampleTexts ==
  {T_OnePlusTwo, T_FourPlusThreePlusOne, T_Two, T_OneAmpTwo, T_PlusOne,
   T_OnePlus, T_OnePlusPlusTwo,
   SP \o SP \o W_three \o SP \o SP \o W_plus \o SP \o W_four \o SP,
   W_one \o TAB \o W_plus \o SP \o TAB \o W_two \o W_plus \o W_four,
   W_one \o AMP \o AMP \o W_plus \o SP \o AMP \o W_two \o AMP}

Texts == PieceTexts \union Sentences \union ExampleTexts

\* A later run of the pipeline takes the text of the run before it again, or
\* one of the examples.
LaterTexts(previous) == {previous} \union ExampleTexts

(***************************************************************************)
(* Grammar (the $.RULE calls of CalculatorPure's constructor).             *)
(***************************************************************************)
\* the rules in the order the constructor declares them
RuleNames == <<"expression", "additionExpression", "atomicExpression">>

\* defaultRule: the rule the host invokes
defaultRule == "expression"

\* the rules a rule's body invokes with SUBRULE / SUBRULE2
SubruleRefs(rule) ==
  CASE rule = "expression" -> {"additionExpression"}
    [] rule = "additionExpression" -> {"atomicExpression"}
    [] rule = "atomicExpression" -> {}

Range(s) == {s[i] : i \in 1..Len(s)}

\* the sub-rule references of the declared rules that name no declared rule
UnresolvedRefs(rules) ==
  {rs \in rules \X Range(RuleNames) : rs[2] \in SubruleRefs(rs[1]) /\ rs[2] \notin rules}

performSelfAnalysis_unchecked(rules) == "ready"

\* this.performSelfAnalysis(): throws when the grammar has a defect
performSelfAnalysis(rules) ==
  IF UnresolvedRefs(rules) = {} THEN "ready" ELSE "GrammarError"

\* Rule sets a grammar definition may declare: the source declares all of
\* RuleNames; the others leave declarations out and keep the entry rule.
RuleSets == {rs \in SUBSET Range(RuleNames) : defaultRule \in rs}

\* the declarations of rs in source order
RECURSIVE Declarations(_, _)
Declarations(names, rs) ==
  IF names = <<>> THEN <<>>
  ELSE IF Head(names) \in rs
    THEN <<Head(names)>> \o Declarations(Tail(names), rs)
    ELSE Declarations(Tail(names), rs)

(***************************************************************************)
(* Visitor construction (CalculatorInterpreter's constructor).             *)
(***************************************************************************)
\* the methods the class defines
InterpreterMethods == {"expression", "additionExpression", "atomicExpression"}

\* Method sets an interpreter class may define: the source's, and ones with
\* a method removed or a method that is no rule added.
MethodSets == SUBSET (InterpreterMethods \union {"helper"})

validateVisitor_redundantOnly(methods, rules) ==
  IF rules \subseteq methods THEN "ready" ELSE "DispatchError"

\* this.validateVisitor(): "detect any missing or redundant methods"
validateVisitor(methods, rules) ==
  LET missing == rules \ methods
      redundant == methods \ rules
  IN IF missing = {} /\ redundant = {} THEN "ready" ELSE "DispatchError"

(***************************************************************************)
(* CST construction.                                                       *)
(***************************************************************************)
EOF ==
  [image |-> <<>>, startOffset |-> -1, tokenType |-> "EOF"]

NewNode(name) == [name |-> name, children |-> <<>>]

\* addTerminalToCst / addNoneTerminalToCst: a key exists once it has an
\* element
addToCst(node, key, elem) ==
  [node EXCEPT !.children =
     IF key \in DOMAIN @ THEN [@ EXCEPT ![key] = Append(@, elem)]
     ELSE @ @@ (key :> <<elem>>)]

terminalKey_concreteType(tokType, token) == token.tokenType

\* CONSUME(tokType) without LABEL files the token under the name of the
\* token type it was called with
terminalKey(tokType, token) == tokType

\* this.LA(1)
LA(tokens, idx) == IF idx + 1 <= Len(tokens) THEN tokens[idx + 1] ELSE EOF

consumeToken_guarded(tokens, idx) ==
  IF idx + 1 < Len(tokens) THEN idx + 1 ELSE idx

\* this.consumeToken(): currIdx++
consumeToken(tokens, idx) == idx + 1

resetLexerState_stale(idx) == idx

\* reset() of the input setter: the cursor goes back to the start
resetLexerState(idx) == 0

Top(stack) == stack[Len(stack)]
Pop(stack) == SubSeq(stack, 1, Len(stack) - 1)
ReplaceTop(stack, x) == [stack EXCEPT ![Len(stack)] = x]

\* the rule on top returns: its node goes to its caller's node under label
ReturnNode(stack, label) ==
  LET node == Top(stack)
      rest == Pop(stack)
  IN ReplaceTop(rest, addToCst(Top(rest), label, node))

(***************************************************************************)
(* Interpreter (CalculatorInterpreter).                                    *)
(***************************************************************************)
\* result += rhsValue
Add(a, b) ==
  IF IsThrown(a) THEN a
  ELSE IF IsThrown(b) THEN b
  ELSE IF a.kind = "number" /\ b.kind = "number" THEN Num(a.n + b.n)
  ELSE NaN

RECURSIVE visit(_, _)
RECURSIVE visitMethod(_, _, _)
RECURSIVE forEachRhs(_, _, _, _)

\* this.visit(x): x is an array of nodes (so <<>> also stands for undefined);
\* it dispatches on the name of the first node
visit(nodes, ms) ==
  IF nodes = <<>> THEN Undefined
  ELSE LET cstNode == nodes[1] IN
    IF cstNode.name \in ms
      THEN visitMethod(cstNode.name, cstNode.children, ms)
      ELSE Thrown("DispatchError")

\* ctx.rhs.forEach((rhsOperand, idx) => ...), from index idx on
forEachRhs(ctx, idx, acc, ms) ==
  IF idx > Len(ctx.rhs) \/ IsThrown(acc) THEN acc
  ELSE LET rhsValue == visit(<<ctx.rhs[idx]>>, ms) IN
    IF IsThrown(rhsValue) THEN rhsValue
    ELSE IF "AdditionOperator" \notin DOMAIN ctx
              \/ idx > Len(ctx.AdditionOperator)
      THEN Thrown("TypeError")
    ELSE IF tokenMatcher(ctx.AdditionOperator[idx], "Plus")
      THEN forEachRhs(ctx, idx + 1, Add(acc, rhsValue), ms)
      ELSE forEachRhs(ctx, idx + 1, acc, ms)

\* the three visit methods
visitMethod(name, ctx, ms) ==
  CASE name = "expression" ->
         visit(IF "additionExpression" \in DOMAIN ctx
                 THEN ctx.additionExpression ELSE <<>>, ms)
    [] name = "additionExpression" ->
         LET lhsValue == visit(IF "lhs" \in DOMAIN ctx THEN ctx.lhs ELSE <<>>, ms)
         IN IF "rhs" \in DOMAIN ctx
              THEN forEachRhs(ctx, 1, lhsValue, ms)
              ELSE lhsValue
    [] name = "atomicExpression" ->
         IF "NumberLiteral" \in DOMAIN ctx
           THEN values(ctx.NumberLiteral[1].image)
           ELSE Undefined
    [] OTHER -> Undefined

VARIABLES
  parserState, pending, declared,
  visitorState, methods,
  text, lexResult,
  tokVector, currIdx, errors, RULE_STACK, CST_STACK,
  pc, beforeIteration, result, visited, reused

ctorVars == <<parserState, pending, declared>>
visitorVars == <<visitorState, methods>>
hostVars == <<text, lexResult>>
parserVars == <<tokVector, currIdx, errors, RULE_STACK, CST_STACK>>
vars ==
  <<parserState, pending, declared, visitorState, methods, text, lexResult,
    tokVector, currIdx, errors, RULE_STACK, CST_STACK,
    pc, beforeIteration, result, visited, reused>>

(***************************************************************************)
(* Initial state: the script starts; nothing is constructed yet.           *)
(***************************************************************************)
Init ==
  /\ parserState = "none"
  /\ pending = <<>>
  /\ declared = {}
  /\ visitorState = "none"
  /\ methods = {}
  /\ text = <<>>
  /\ lexResult = [tokens |-> <<>>, errors |-> <<>>]
  /\ tokVector = <<>>
  /\ currIdx = 0
  /\ errors = <<>>
  /\ RULE_STACK = <<>>
  /\ CST_STACK = <<>>
  /\ pc = "noInput"
  /\ beforeIteration = 0
  /\ result = <<>>
  /\ visited = <<>>
  /\ reused = FALSE

(***************************************************************************)
(* new CalculatorPure([]): super(allTokens), the RULE calls, then          *)
(* performSelfAnalysis.                                                    *)
(***************************************************************************)
\* the constructor starts; rs is the set of rules it is going to declare
NewCalculatorPure ==
  /\ parserState = "none"
  /\ \E rs \in RuleSets : pending' = Declarations(RuleNames, rs)
  /\ parserState' = "defining"
  /\ declared' = {}
  /\ UNCHANGED <<visitorVars, hostVars, parserVars, pc, beforeIteration,
                 result, visited, reused>>

\* $.RULE(name, impl): the next declaration
RULE ==
  /\ parserState = "defining"
  /\ pending # <<>>
  /\ declared' = declared \union {Head(pending)}
  /\ pending' = Tail(pending)
  /\ UNCHANGED <<parserState, visitorVars, hostVars, parserVars, pc,
                 beforeIteration, result, visited, reused>>

\* this.performSelfAnalysis(), the last statement of the constructor
PerformSelfAnalysis ==
  /\ parserState = "defining"
  /\ pending = <<>>
  /\ parserState' = performSelfAnalysis(declared)
  /\ UNCHANGED <<pending, declared, visitorVars, hostVars, parserVars, pc,
                 beforeIteration, result, visited, reused>>

\* new CalculatorInterpreter(): super(), then this.validateVisitor(); ms is
\* the set of methods of the class
NewCalculatorInterpreter ==
  /\ parserState = "ready"
  /\ visitorState = "none"
  /\ \E ms \in MethodSets :
       /\ methods' = ms
       /\ visitorState' = validateVisitor(ms, declared)
  /\ UNCHANGED <<ctorVars, hostVars, parserVars, pc, beforeIteration,
                 result, visited, reused>>

(***************************************************************************)
(* The host runs the pipeline on a text.                                   *)
(***************************************************************************)
\* lexResult = CalculatorLexer.tokenize(t); parser.input = lexResult.tokens
\* (the input setter resets the parser and installs the token vector)
TokenizeAndSetInput ==
  /\ parserState = "ready"
  /\ visitorState = "ready"
  /\ pc \in {"noInput", "done", "visited"}
  /\ \E t \in (IF pc = "noInput" THEN Texts ELSE LaterTexts(text)) :
       LET lexingResult == tokenize(t) IN
       /\ text' = t
       /\ lexResult' = lexingResult
       /\ tokVector' = lexingResult.tokens
  /\ currIdx' = resetLexerState(currIdx)
  /\ errors' = <<>>
  /\ RULE_STACK' = <<>>
  /\ CST_STACK' = <<>>
  /\ pc' = "input"
  /\ result' = <<>>
  /\ visited' = <<>>
  /\ reused' = (pc # "noInput")
  /\ UNCHANGED <<ctorVars, visitorVars, beforeIteration>>

(***************************************************************************)
(* parser.expression(): the rule bodies, one step per parser call.         *)
(***************************************************************************)
Throw_partialTree(exception) ==
  /\ errors' = Append(errors, exception)
  /\ RULE_STACK' = <<>>
  /\ CST_STACK' = <<>>
  /\ currIdx' = Len(tokVector)
  /\ result' = <<CST_STACK[1]>>
  /\ pc' = "done"
  /\ UNCHANGED <<tokVector, beforeIteration>>

\* a recognition exception: the error is saved, every rule on the stack is
\* left, and the first invoked rule returns undefined
Throw(exception) ==
  /\ errors' = Append(errors, exception)
  /\ RULE_STACK' = <<>>
  /\ CST_STACK' = <<>>
  /\ currIdx' = Len(tokVector)
  /\ result' = <<>>
  /\ pc' = "done"
  /\ UNCHANGED <<tokVector, beforeIteration>>

\* a JavaScript error that is no recognition exception reaches the host
Crash ==
  /\ pc' = "crashed"
  /\ result' = <<>>
  /\ UNCHANGED <<parserVars, beforeIteration>>

\* MANY is over: additionExpression returns to expression, expression to the
\* host; input that is left over is reported
ReturnToHost ==
  LET stack == ReturnNode(CST_STACK, "additionExpression") IN
  /\ result' = <<Top(stack)>>
  /\ RULE_STACK' = <<>>
  /\ CST_STACK' = <<>>
  /\ errors' =
       IF currIdx < Len(tokVector)
         THEN Append(errors, [name |-> "NotAllInputParsedException",
                              token |-> LA(tokVector, currIdx)])
         ELSE errors
  /\ pc' = "done"
  /\ UNCHANGED <<tokVector, currIdx, beforeIteration>>

\* the host calls parser.expression()
InvokeExpression ==
  /\ pc = "input"
  /\ RULE_STACK' = <<defaultRule>>
  /\ CST_STACK' = <<NewNode(defaultRule)>>
  /\ pc' = "expression"
  /\ UNCHANGED <<ctorVars, visitorVars, hostVars, tokVector, currIdx, errors,
                 beforeIteration, result, visited, reused>>

\* $.SUBRULE($.additionExpression)
SubruleAdditionExpression ==
  /\ pc = "expression"
  /\ IF "additionExpression" \in declared
       THEN /\ RULE_STACK' = Append(RULE_STACK, "additionExpression")
            /\ CST_STACK' = Append(CST_STACK, NewNode("additionExpression"))
            /\ pc' = "lhs"
            /\ UNCHANGED <<tokVector, currIdx, errors, beforeIteration, result>>
       ELSE Crash
  /\ UNCHANGED <<ctorVars, visitorVars, hostVars, visited, reused>>

\* $.SUBRULE($.atomicExpression, {LABEL: "lhs"})
SubruleLhs ==
  /\ pc = "lhs"
  /\ IF "atomicExpression" \in declared
       THEN /\ RULE_STACK' = Append(RULE_STACK, "atomicExpression")
            /\ CST_STACK' = Append(CST_STACK, NewNode("atomicExpression"))
            /\ pc' = "atomicLhs"
            /\ UNCHANGED <<tokVector, currIdx, errors, beforeIteration, result>>
       ELSE Crash
  /\ UNCHANGED <<ctorVars, visitorVars, hostVars, visited, reused>>

\* atomicExpression: $.CONSUME(NumberLiteral), then the rule returns to the
\* SUBRULE that called it, which files the node under its label
ConsumeNumberLiteral ==
  /\ pc \in {"atomicLhs", "atomicRhs"}
  /\ LET nextToken == LA(tokVector, currIdx) IN
     IF tokenMatcher(nextToken, "NumberLiteral")
       THEN /\ currIdx' = consumeToken(tokVector, currIdx)
            /\ CST_STACK' =
                 ReturnNode(
                   ReplaceTop(CST_STACK,
                              addToCst(Top(CST_STACK),
                                       terminalKey("NumberLiteral", nextToken),
                                       nextToken)),
                   IF pc = "atomicLhs" THEN "lhs" ELSE "rhs")
            /\ RULE_STACK' = Pop(RULE_STACK)
            /\ pc' = IF pc = "atomicLhs" THEN "many" ELSE "endOfIteration"
            /\ UNCHANGED <<tokVector, errors, beforeIteration, result>>
       ELSE Throw([name |-> "MismatchedTokenException", token |-> nextToken])
  /\ UNCHANGED <<ctorVars, visitorVars, hostVars, visited, reused>>

\* $.MANY(...): the lookahead decides on LA(1) whether to iterate
ManyLookahead ==
  /\ pc = "many"
  /\ IF tokenMatcher(LA(tokVector, currIdx), "AdditionOperator")
       THEN /\ beforeIteration' = currIdx
            /\ pc' = "operator"
            /\ UNCHANGED <<parserVars, result>>
       ELSE ReturnToHost
  /\ UNCHANGED <<ctorVars, visitorVars, hostVars, visited, reused>>

\* $.CONSUME(AdditionOperator)
ConsumeAdditionOperator ==
  /\ pc = "operator"
  /\ LET nextToken == LA(tokVector, currIdx) IN
     IF tokenMatcher(nextToken, "AdditionOperator")
       THEN /\ currIdx' = consumeToken(tokVector, currIdx)
            /\ CST_STACK' =
                 ReplaceTop(CST_STACK,
                            addToCst(Top(CST_STACK),
                                     terminalKey("AdditionOperator", nextToken),
                                     nextToken))
            /\ pc' = "rhs"
            /\ UNCHANGED <<tokVector, errors, RULE_STACK, beforeIteration, result>>
       ELSE Throw([name |-> "MismatchedTokenException", token |-> nextToken])
  /\ UNCHANGED <<ctorVars, visitorVars, hostVars, visited, reused>>

\* $.SUBRULE2($.atomicExpression, {LABEL: "rhs"})
Subrule2Rhs ==
  /\ pc = "rhs"
  /\ IF "atomicExpression" \in declared
       THEN /\ RULE_STACK' = Append(RULE_STACK, "atomicExpression")
            /\ CST_STACK' = Append(CST_STACK, NewNode("atomicExpression"))
            /\ pc' = "atomicRhs"
            /\ UNCHANGED <<tokVector, currIdx, errors, beforeIteration, result>>
       ELSE Crash
  /\ UNCHANGED <<ctorVars, visitorVars, hostVars, visited, reused>>

\* the end of one iteration of MANY: it goes on only if the iteration has
\* moved the cursor
EndOfIteration ==
  /\ pc = "endOfIteration"
  /\ IF currIdx > beforeIteration
       THEN pc' = "many" /\ UNCHANGED <<parserVars, beforeIteration, result>>
       ELSE ReturnToHost
  /\ UNCHANGED <<ctorVars, visitorVars, hostVars, visited, reused>>

ParserStep ==
  \/ InvokeExpression
  \/ SubruleAdditionExpression
  \/ SubruleLhs
  \/ ConsumeNumberLiteral
  \/ ManyLookahead
  \/ ConsumeAdditionOperator
  \/ Subrule2Rhs
  \/ EndOfIteration

(***************************************************************************)
(* interpreter.visit(cst)                                                  *)
(***************************************************************************)
Visit ==
  /\ pc = "done"
  /\ visited' = <<visit(result, methods)>>
  /\ pc' = "visited"
  /\ UNCHANGED <<ctorVars, visitorVars, hostVars, parserVars, beforeIteration,
                 result, reused>>

Next ==
  \/ NewCalculatorPure
  \/ RULE
  \/ PerformSelfAnalysis
  \/ NewCalculatorInterpreter
  \/ TokenizeAndSetInput
  \/ InvokeExpression
  \/ SubruleAdditionExpression
  \/ SubruleLhs
  \/ ConsumeNumberLiteral
  \/ ManyLookahead
  \/ ConsumeAdditionOperator
  \/ Subrule2Rhs
  \/ EndOfIteration
  \/ Visit

Spec == Init /\ [][Next]_vars

\* parser.expression() is a synchronous call: once invoked it runs to its
\* return
FairSpec == Spec /\ WF_vars(ParserStep)

(***************************************************************************)
(* Vocabulary of the properties.                                           *)
(***************************************************************************)
Lexed == pc # "noInput"
ParseDone == pc \in {"done", "visited"}

NumberWords == {W_one, W_two, W_three, W_four}
IsNumberWord(token) == token.image \in NumberWords
IsPlusWord(token) == token.image = W_plus

\* the number a number word stands for
WordValue(token) ==
  CASE token.tokenType = "One" -> 1
    [] token.tokenType = "Two" -> 2
    [] token.tokenType = "Three" -> 3
    [] token.tokenType = "Four" -> 4
    [] OTHER -> 0

RECURSIVE SumOfNumbers(_)
SumOfNumbers(tokens) ==
  IF tokens = <<>> THEN 0
  ELSE WordValue(Head(tokens)) + SumOfNumbers(Tail(tokens))

\* the first n tokens read: number (plus number)*
GoodPrefix(tokens, n) ==
  /\ n % 2 = 1
  /\ n <= Len(tokens)
  /\ \A i \in 1..n :
       IF i % 2 = 1 THEN IsNumberWord(tokens[i]) ELSE IsPlusWord(tokens[i])

\* the length of the longest such prefix, 0 when there is none
MaxGood(tokens) ==
  LET good == {n \in 1..Len(tokens) : GoodPrefix(tokens, n)}
  IN IF good = {} THEN 0 ELSE CHOOSE n \in good : \A m \in good : m <= n

TokenAt(tokens, i) == IF i <= Len(tokens) THEN tokens[i] ELSE EOF

\* the tree is an expression node over one additionExpression node
IsWholeTree(tree) ==
  /\ tree.name = "expression"
  /\ DOMAIN tree.children = {"additionExpression"}
  /\ Len(tree.children.additionExpression) = 1
  /\ tree.children.additionExpression[1].name = "additionExpression"

\* the tokens of the tree of an expression node
AdditionNode(tree) == tree.children.additionExpression[1]
Label(ctx, key) == IF key \in DOMAIN ctx THEN ctx[key] ELSE <<>>
TokensInTree(tree) ==
  LET ctx == AdditionNode(tree).children
  IN Len(Label(ctx, "lhs")) + Len(Label(ctx, "AdditionOperator"))
       + Len(Label(ctx, "rhs"))

(***************************************************************************)
(* C1: for a text that tokenizes and parses without error, visit returns   *)
(* the sum of the values of the number tokens of the text; "one plus two"  *)
(* gives 3, "four plus three plus one" gives 8 and "two" gives 2.          *)
(***************************************************************************)
C1_VisitSumsTheNumbers ==
  pc = "visited" =>
    /\ (lexResult.errors = <<>> /\ errors = <<>> /\ result # <<>>)
         => visited = <<Num(SumOfNumbers(lexResult.tokens))>>
    /\ text = T_OnePlusTwo => visited = <<Num(3)>>
    /\ text = T_FourPlusThreePlusOne => visited = <<Num(8)>>
    /\ text = T_Two => visited = <<Num(2)>>

C1_Witness ==
  /\ pc = "visited"
  /\ text = T_FourPlusThreePlusOne
  /\ errors = <<>>
  /\ visited = <<Num(8)>>

(***************************************************************************)
(* C3: when the first token is no number word, or there is no token, the   *)
(* parse returns no tree and reports a mismatched token at that position.  *)
(***************************************************************************)
C3_NoLeftOperandFails ==
  (ParseDone /\ (tokVector = <<>> \/ ~IsNumberWord(tokVector[1]))) =>
    /\ result = <<>>
    /\ errors = <<[name |-> "MismatchedTokenException",
                   token |-> TokenAt(tokVector, 1)]>>

C3_Witness ==
  /\ ParseDone
  /\ text = T_PlusOne
  /\ result = <<>>
  /\ Len(errors) = 1

(***************************************************************************)
(* C4: performSelfAnalysis decides the parser's state only after every     *)
(* RULE call, it fails exactly when a declared rule refers to an           *)
(* undeclared one, and texts are parsed only by a parser that passed it.   *)
(***************************************************************************)
HasUndeclaredReference ==
  \E r \in declared : ~(SubruleRefs(r) \subseteq declared)

C4_SelfAnalysisBeforeParsing ==
  /\ parserState \in {"ready", "GrammarError"} =>
       /\ pending = <<>>
       /\ parserState = "GrammarError" <=> HasUndeclaredReference
  /\ Lexed =>
       /\ parserState = "ready"
       /\ ~HasUndeclaredReference
       /\ declared = Range(RuleNames)

C4_Witness ==
  /\ parserState = "GrammarError"
  /\ "expression" \in declared
  /\ "additionExpression" \notin declared

IsBlank(c) == c \in WhiteSpaceChars
LeafChars == UNION {Range(w) : w \in LeafWords}
\* a character no leaf pattern can match
IsStray(c) == ~IsBlank(c) /\ c \notin LeafChars

\* the offsets where a maximal run of characters satisfying P starts, and
\* the length of the run that starts at o
RunStarts(txt, P(_)) ==
  {o \in 0..(Len(txt) - 1) : P(txt[o + 1]) /\ (o = 0 \/ ~P(txt[o]))}
RunLength(txt, P(_), o) ==
  CHOOSE l \in 1..(Len(txt) - o) :
    /\ \A k \in 1..l : P(txt[o + k])
    /\ (o + l = Len(txt) \/ ~P(txt[o + l + 1]))

IsWordChar(c) == ~IsBlank(c)

\* the words of the text are leaf words separated by blanks
IsLeafText(txt) ==
  \A o \in RunStarts(txt, IsWordChar) :
    SubSeq(txt, o + 1, o + RunLength(txt, IsWordChar, o)) \in LeafWords

\* the leaf kind whose pattern is the word
KindOfWord(word) ==
  CHOOSE kind \in {"Plus", "One", "Two", "Three", "Four"} : pattern(kind) = word

\* every token is a leaf word found at its offset, in source order
TokensLieInText(txt, tokens) ==
  /\ \A i \in 1..Len(tokens) :
       /\ tokens[i].image \in LeafWords
       /\ tokens[i].tokenType = KindOfWord(tokens[i].image)
       /\ tokens[i].startOffset + Len(tokens[i].image) <= Len(txt)
       /\ SubSeq(txt, tokens[i].startOffset + 1,
                 tokens[i].startOffset + Len(tokens[i].image)) = tokens[i].image
  /\ \A i \in 1..(Len(tokens) - 1) :
       tokens[i].startOffset + Len(tokens[i].image) <= tokens[i + 1].startOffset

\* the offsets no token covers
Uncovered(txt, tokens) ==
  {o \in 0..(Len(txt) - 1) :
     \A i \in 1..Len(tokens) :
       o < tokens[i].startOffset
         \/ o >= tokens[i].startOffset + Len(tokens[i].image)}

RECURSIVE Rebuild(_, _, _, _)
\* the images of the tokens from index i on, with the blanks of the text
\* that lie between them, from offset off on
Rebuild(txt, tokens, i, off) ==
  IF i > Len(tokens)
    THEN SelectSeq(SubSeq(txt, off + 1, Len(txt)), IsBlank)
    ELSE SelectSeq(SubSeq(txt, off + 1, tokens[i].startOffset), IsBlank)
           \o tokens[i].image
           \o Rebuild(txt, tokens, i + 1,
                      tokens[i].startOffset + Len(tokens[i].image))

(***************************************************************************)
(* C2, as the spec states it: a text with a character that no pattern      *)
(* matches makes tokenize fail, and no token is returned.                  *)
(***************************************************************************)
HasStray(txt) == \E i \in 1..Len(txt) : IsStray(txt[i])

AtomicNode(token) ==
  [name |-> "atomicExpression", children |-> [NumberLiteral |-> <<token>>]]

\* the parse fails when there is no left operand or an operator lacks its
\* right operand
Fails(tokens) ==
  LET n == MaxGood(tokens)
  IN n = 0 \/ (n < Len(tokens) /\ IsPlusWord(tokens[n + 1]))

\* what parsing tokens yields on a parser that has parsed nothing
FreshTree(tokens) ==
  LET n == MaxGood(tokens)
      m == (n - 1) \div 2
      lhs == [lhs |-> <<AtomicNode(tokens[1])>>]
      ctx == IF m = 0 THEN lhs
             ELSE [lhs |-> <<AtomicNode(tokens[1])>>,
                   AdditionOperator |-> [j \in 1..m |-> tokens[2 * j]],
                   rhs |-> [j \in 1..m |-> AtomicNode(tokens[2 * j + 1])]]
  IN IF Fails(tokens) THEN <<>>
     ELSE <<[name |-> "expression",
             children |->
               [additionExpression |->
                  <<[name |-> "additionExpression", children |-> ctx]>>]]>>

FreshErrors(tokens) ==
  LET n == MaxGood(tokens)
  IN IF Fails(tokens)
       THEN <<[name |-> "MismatchedTokenException",
               token |-> TokenAt(tokens, IF n = 0 THEN 1 ELSE n + 2)]>>
     ELSE IF n < Len(tokens)
       THEN <<[name |-> "NotAllInputParsedException", token |-> tokens[n + 1]]>>
     ELSE <<>>

C6_ParseHasNoHiddenState ==
  ParseDone =>
    /\ result = FreshTree(tokVector)
    /\ errors = FreshErrors(tokVector)

C6_Witness ==
  /\ ParseDone
  /\ reused
  /\ text = T_OnePlusTwo
  /\ result # <<>>

(***************************************************************************)
(* C7: a text of leaf words separated by blanks tokenizes without error    *)
(* into one token per word, in source order, with the word as image and    *)
(* the word's leaf kind as type; no token stands for blanks, and the       *)
(* images put back between the blanks of the text give the text.           *)
(***************************************************************************)
C7_TokenizeIsLossless ==
  (Lexed /\ IsLeafText(text)) =>
    LET tokens == lexResult.tokens
        starts == RunStarts(text, IsWordChar)
    IN /\ lexResult.errors = <<>>
       /\ Len(tokens) = Cardinality(starts)
       /\ \A i \in 1..Len(tokens) :
            /\ tokens[i].startOffset \in starts
            /\ Len(tokens[i].image)
                 = RunLength(text, IsWordChar, tokens[i].startOffset)
       /\ TokensLieInText(text, tokens)
       /\ Rebuild(text, tokens, 1, 0) = text

C7_Witness ==
  /\ Lexed
  /\ text = SP \o SP \o W_three \o SP \o SP \o W_plus \o SP \o W_four \o SP
  /\ Len(lexResult.tokens) = 3

(***************************************************************************)
(* C8: an operator that is consumed and not followed by a number word      *)
(* fails the whole parse with a mismatched token at the place of the       *)
(* missing operand; a tree is returned only when the repetition stopped at *)
(* a lookahead token that is no operator.                                  *)
(***************************************************************************)
\* an operator after a well-formed prefix lacks its right operand
OperatorWithoutOperand(tokens) ==
  LET n == MaxGood(tokens)
  IN n > 0 /\ n < Len(tokens) /\ IsPlusWord(tokens[n + 1])

C8_NoSilentStopAfterOperator ==
  ParseDone =>
    /\ OperatorWithoutOperand(tokVector) =>
         /\ result = <<>>
         /\ errors = <<[name |-> "MismatchedTokenException",
                        token |-> TokenAt(tokVector, MaxGood(tokVector) + 2)]>>
    /\ result # <<>> =>
         /\ IsWholeTree(result[1])
         /\ LET n == TokensInTree(result[1])
            IN /\ GoodPrefix(tokVector, n)
               /\ ~IsPlusWord(TokenAt(tokVector, n + 1))

C8_Witness ==
  /\ ParseDone
  /\ text = T_OnePlusPlusTwo
  /\ result = <<>>
  /\ Len(errors) = 1

(***************************************************************************)
(* C9: the additionExpression node of a returned tree has exactly one lhs, *)
(* has rhs exactly when it has AdditionOperator, both of the same length,  *)
(* and operator i is the token just before right operand i; the visitor    *)
(* therefore never reads an absent label or an index out of range.         *)
(***************************************************************************)
C9_OperatorsPairWithOperands ==
  (ParseDone /\ result # <<>>) =>
    LET ctx == AdditionNode(result[1]).children
    IN /\ IsWholeTree(result[1])
       /\ "lhs" \in DOMAIN ctx
       /\ Len(ctx.lhs) = 1
       /\ "rhs" \in DOMAIN ctx <=> "AdditionOperator" \in DOMAIN ctx
       /\ "rhs" \in DOMAIN ctx =>
            /\ Len(ctx.rhs) >= 1
            /\ Len(ctx.rhs) = Len(ctx.AdditionOperator)
            /\ \A i \in 1..Len(ctx.rhs) :
                 \E k \in 1..(Len(tokVector) - 1) :
                   /\ tokVector[k] = ctx.AdditionOperator[i]
                   /\ <<tokVector[k + 1]>> = Label(ctx.rhs[i].children, "NumberLiteral")
       /\ pc = "visited" => visited[1].kind # "TypeError"

C9_Witness ==
  /\ pc = "visited"
  /\ text = T_FourPlusThreePlusOne
  /\ Len(AdditionNode(result[1]).children.rhs) = 2

(***************************************************************************)
(* C10: an iteration of the repetition that completes has consumed the     *)
(* operator and its right operand, so the cursor is further than where the *)
(* iteration began; a parse that has started ends, with a tree or with an  *)
(* error.                                                                  *)
(***************************************************************************)
IterationConsumed ==
  pc = "endOfIteration" =>
    /\ currIdx > beforeIteration
    /\ currIdx = beforeIteration + 2
    /\ currIdx <= Len(tokVector)
    /\ IsPlusWord(tokVector[beforeIteration + 1])
    /\ IsNumberWord(tokVector[beforeIteration + 2])

C10_RepetitionAdvancesAndParseEnds ==
  /\ []IterationConsumed
  /\ [](ParseDone => (result # <<>> \/ errors # <<>>))
  /\ (pc = "expression") ~> ParseDone

C10_Witness ==
  /\ pc = "endOfIteration"
  /\ currIdx = 5
  /\ beforeIteration = 3

====
